---- MODULE Spec2Model ----
(***************************************************************************)
(* Model of type.go: the reflection pass that turns an entity struct into  *)
(* a GraphQL object (FieldType, with the scalar classifier field) and into *)
(* relationship fields (RelationshipType, with the classifier             *)
(* relationship).                                                          *)
(*                                                                         *)
(* A string that the code takes apart (a Go field name, a json tag value,  *)
(* a map key) is a sequence of one-character strings, so that              *)
(* strings.ToLower and inflection.Singular are computed, not assumed.      *)
(* A Go map is a function whose DOMAIN is the set of its keys; a nilable   *)
(* value is a record with a `nil` flag.                                    *)
(***************************************************************************)
EXTENDS Integers, Sequences, FiniteSets, TLC

VARIABLES
    op,              \* the exported function being called
    entity,          \* reflect.TypeOf(entity.Instance()): the struct's fields, in declaration order
    entitiesMap,     \* RelationshipType's argument: name -> Entity
    entitiesObjects, \* RelationshipType's argument: name -> *graphql.Object
    i,               \* the loop index of the running pass (0-based, as in the code)
    fields,          \* the local map `fields` of the running pass
    filters,         \* the local map `filters` of FieldType
    pc,              \* "loop" while the pass runs, then "returned" or "panicked"
    retObj,          \* FieldType's 1st result
    retFilters,      \* FieldType's 2nd result
    retFields,       \* RelationshipType's 1st result
    retErr,          \* the error result of either function
    examined,        \* history: the indices handed to the classifier, in order
    defs,            \* history: what the classifier returned for each of them
    calls            \* history: the calls made to resolvers.Single / resolvers.Listing, in order

vars == <<op, entity, entitiesMap, entitiesObjects, i, fields, filters, pc,
          retObj, retFilters, retFields, retErr, examined, defs, calls>>

----------------------------------------------------------------------------
(* Bounds *)

\* The longest entity struct the passes are run on.
MaxFields == 2

----------------------------------------------------------------------------
(* Errors and filter kinds *)

errNil == "nil"
errorNotSimpleFieldType == "not a simple field type"
errorNotRelationshipType == "not a relationship field type"
errorUnknownFieldType == "unknown type"
\* Not an error value: the run-time panic of a method call on a nil Entity.
errPanic == "panic: nil pointer dereference"

\* The int8 filter constants (declared outside type.go).  filterNone is the
\* zero value of fieldDefinition.filter; the others are pairwise distinct.
filterNone == "filterNone"
filterString == "filterString"
filterBool == "filterBool"
filterInt == "filterInt"
filterFloat == "filterFloat"
filterDate == "filterDate"

----------------------------------------------------------------------------
(* Strings *)

UpperChars == <<"A","B","C","D","E","F","G","H","I","J","K","L","M",
                "N","O","P","Q","R","S","T","U","V","W","X","Y","Z">>
LowerChars == <<"a","b","c","d","e","f","g","h","i","j","k","l","m",
                "n","o","p","q","r","s","t","u","v","w","x","y","z">>

ToLowerChar(c) ==
    IF \E n \in DOMAIN UpperChars : UpperChars[n] = c
    THEN LowerChars[CHOOSE n \in DOMAIN UpperChars : UpperChars[n] = c]
    ELSE c

\* strings.ToLower
ToLower(s) == [k \in 1..Len(s) |-> ToLowerChar(s[k])]

\* inflection.Singular, restricted to the two of its rules that the names of
\* this model reach: "(ss)$" -> "${1}" is tried before "s$" -> "".
Singular(s) ==
    IF Len(s) >= 2 /\ ToLowerChar(s[Len(s) - 1]) = "s" /\ ToLowerChar(s[Len(s)]) = "s"
    THEN s
    ELSE IF Len(s) >= 1 /\ ToLowerChar(s[Len(s)]) = "s"
    THEN SubSeq(s, 1, Len(s) - 1)
    ELSE s

\* strconv.ParseBool: the value and whether parsing succeeded.
ParseBool(v) ==
    IF v \in {"1", "t", "T", "TRUE", "true", "True"} THEN [val |-> TRUE, ok |-> TRUE]
    ELSE IF v \in {"0", "f", "F", "FALSE", "false", "False"} THEN [val |-> FALSE, ok |-> TRUE]
    ELSE [val |-> FALSE, ok |-> FALSE]

----------------------------------------------------------------------------
(* Go maps and nilable values *)

EmptyMap == [k \in {} |-> 0]

\* m[k] = v
MapPut(m, k, v) == [x \in (DOMAIN m) \cup {k} |-> IF x = k THEN v ELSE m[x]]

\* m[k], the zero value when the key is missing
MapGet(m, k, zero) == IF k \in DOMAIN m THEN m[k] ELSE zero

NilMap == [nil |-> TRUE, m |-> EmptyMap]
SomeMap(m) == [nil |-> FALSE, m |-> m]

NilField == [nil |-> TRUE, Name |-> <<>>, Type |-> "", Resolve |-> ""]
NilEntity == [nil |-> TRUE, name |-> <<>>]
NilObject == [nil |-> TRUE, name |-> <<>>, fields |-> EmptyMap]

\* graphql.NewObject(graphql.ObjectConfig{Name, Fields}): never nil
NewObject(name, fs) == [nil |-> FALSE, name |-> name, fields |-> fs]

\* A graphql.Output held by a relationship field: the object itself, or
\* graphql.NewList(of), a list type wrapping `of`, which may be a nil *Object
\* (NewList tests the interface value, which a typed nil pointer passes).
ObjectType(of) == [list |-> FALSE, of |-> of]
NewList(of) == [list |-> TRUE, of |-> of]

----------------------------------------------------------------------------
(* reflect.StructField *)

\* reflect.Kind, without Invalid
Kinds == {"Bool", "Int", "Int8", "Int16", "Int32", "Int64",
          "Uint", "Uint8", "Uint16", "Uint32", "Uint64", "Uintptr",
          "Float32", "Float64", "Complex64", "Complex128",
          "Array", "Chan", "Func", "Interface", "Map", "Ptr",
          "Slice", "String", "Struct", "UnsafePointer"}

\* f.Tag.Lookup(key): (value, ok)
NoTag == [ok |-> FALSE, v |-> <<>>]
JsonTag(v) == [ok |-> TRUE, v |-> v]
NoFilterableTag == [ok |-> FALSE, v |-> ""]
FilterableTag(v) == [ok |-> TRUE, v |-> v]

\* A struct field: its Go name, its type's kind, its type's
\* PkgPath() + "." + Name(), and the lookups of its two tags.
StructField(name, kind, fulltype, json, filterable) ==
    [Name |-> name, Kind |-> kind, fulltype |-> fulltype,
     json |-> json, filterable |-> filterable]

----------------------------------------------------------------------------
(* field: the scalar classifier *)

\* Variant of filterableOf: the presence of the tag counts, its value is
\* not parsed.
filterableOf_tagPresent(f) ==
    f.filterable.ok

\* Lines 69-71: the `filterable` tag; a parse error leaves false.
filterableOf(f) ==
    IF f.filterable.ok THEN ParseBool(f.filterable.v).val ELSE FALSE

\* Variant of scalarType: the time.Time test is missing, so time.Time falls
\* into the struct branch.
scalarType_timeAsStruct(f) ==
    LET kind == f.Kind
    IN  IF kind = "String"
        THEN [err |-> errNil, t |-> "String", filter |-> filterString]
        ELSE IF kind = "Bool"
        THEN [err |-> errNil, t |-> "Boolean", filter |-> filterBool]
        ELSE IF \/ kind = "Int" \/ kind = "Int8" \/ kind = "Int16" \/ kind = "Int32"
                \/ kind = "Int64" \/ kind = "Uint" \/ kind = "Uint8" \/ kind = "Uint16"
                \/ kind = "Uint32" \/ kind = "Uint64"
        THEN [err |-> errNil, t |-> "Int", filter |-> filterInt]
        ELSE IF kind = "Float32" \/ kind = "Float64"
        THEN [err |-> errNil, t |-> "Float", filter |-> filterFloat]
        ELSE IF kind = "Struct" \/ kind = "Slice"
        THEN [err |-> errorNotSimpleFieldType, t |-> "", filter |-> filterNone]
        ELSE [err |-> errorNotRelationshipType, t |-> "", filter |-> filterNone]

\* Lines 73-102: the kind switch.  The GraphQL type and the filter kind of a
\* simple field, or the error of a field that is not one.
scalarType(f) ==
    LET kind == f.Kind
        fulltype == f.fulltype
    IN  IF kind = "String"
        THEN [err |-> errNil, t |-> "String", filter |-> filterString]
        ELSE IF kind = "Bool"
        THEN [err |-> errNil, t |-> "Boolean", filter |-> filterBool]
        ELSE IF \/ kind = "Int" \/ kind = "Int8" \/ kind = "Int16" \/ kind = "Int32"
                \/ kind = "Int64" \/ kind = "Uint" \/ kind = "Uint8" \/ kind = "Uint16"
                \/ kind = "Uint32" \/ kind = "Uint64"
        THEN [err |-> errNil, t |-> "Int", filter |-> filterInt]
        ELSE IF kind = "Float32" \/ kind = "Float64"
        THEN [err |-> errNil, t |-> "Float", filter |-> filterFloat]
        ELSE IF fulltype = "time.Time"
        THEN [err |-> errNil, t |-> "DateTime", filter |-> filterDate]
        ELSE IF kind = "Struct" \/ kind = "Slice"
        THEN [err |-> errorNotSimpleFieldType, t |-> "", filter |-> filterNone]
        ELSE [err |-> errorNotRelationshipType, t |-> "", filter |-> filterNone]

\* Variant of fieldName: the name is not lower-cased.
fieldName_noLower(f) ==
    IF f.json.ok THEN f.json.v ELSE f.Name

\* Lines 104-108 and 112: the field's name, from the json tag or the Go name.
fieldName(f) ==
    ToLower(IF f.json.ok THEN f.json.v ELSE f.Name)

\* Lines 59-116: the fieldDefinition and the error.
field(f) ==
    LET st == scalarType(f)
    IN  IF st.err # errNil
        THEN [err |-> st.err, filter |-> filterNone, field |-> NilField]
        ELSE [err |-> errNil,
              filter |-> IF filterableOf(f) THEN st.filter ELSE filterNone,
              field |-> [nil |-> FALSE, Name |-> fieldName(f), Type |-> st.t,
                         Resolve |-> ""]]

----------------------------------------------------------------------------
(* relationship: the relationship classifier *)

\* Variant of lookupName: a slice field's name is not singularized.
lookupName_noSingular(f) ==
    ToLower(f.Name)

\* Lines 146-149: the name the field is looked up and stored under.
lookupName(f) ==
    LET name == ToLower(f.Name)
    IN  IF f.Kind = "Slice" THEN ToLower(Singular(name)) ELSE name

\* Variant of precheck: the time.Time test is missing.
precheck_noTime(eMap, eObjs, f) ==
    LET kind == f.Kind
        name == lookupName(f)
    IN  IF kind = "Slice"
        THEN errNil
        ELSE IF kind # "Struct" /\ kind # "Slice"
        THEN errorNotRelationshipType
        ELSE IF name \notin DOMAIN eMap
        THEN errorUnknownFieldType
        ELSE IF name \notin DOMAIN eObjs
        THEN errorUnknownFieldType
        ELSE errNil

\* Variant of precheck: the kind test is written with || for &&.
precheck_orKinds(eMap, eObjs, f) ==
    LET kind == f.Kind
        fulltype == f.fulltype
        name == lookupName(f)
    IN  IF kind = "Slice"
        THEN errNil
        ELSE IF fulltype = "time.Time" \/ (kind # "Struct" \/ kind # "Slice")
        THEN errorNotRelationshipType
        ELSE IF name \notin DOMAIN eMap
        THEN errorUnknownFieldType
        ELSE IF name \notin DOMAIN eObjs
        THEN errorUnknownFieldType
        ELSE errNil

\* Lines 148-156: the else-if chain; errNil when it falls through.
precheck(eMap, eObjs, f) ==
    LET kind == f.Kind
        fulltype == f.fulltype
        name == lookupName(f)
    IN  IF kind = "Slice"
        THEN errNil
        ELSE IF fulltype = "time.Time" \/ (kind # "Struct" /\ kind # "Slice")
        THEN errorNotRelationshipType
        ELSE IF name \notin DOMAIN eMap
        THEN errorUnknownFieldType
        ELSE IF name \notin DOMAIN eObjs
        THEN errorUnknownFieldType
        ELSE errNil

\* Lines 137-178: the outcomes of one call, each with the resolver factory
\* calls it made.  Entity is declared outside type.go: when the slice branch
\* has read a missing key of entitiesMap, entity.Description() (line 166)
\* panics if Entity is an interface or pointer type and runs on the zero
\* value if it is a struct type, so both outcomes are kept.
relationship(eMap, eObjs, f) ==
    LET kind == f.Kind
        name == lookupName(f)
        pre == precheck(eMap, eObjs, f)
        ent == MapGet(eMap, name, NilEntity)
        obj == MapGet(eObjs, name, NilObject)
        fail(e) == [err |-> e, field |-> NilField, calls |-> <<>>]
        built(t, factory) ==
            [err |-> errNil,
             field |-> [nil |-> FALSE, Name |-> name, Type |-> t,
                        Resolve |-> [factory |-> factory, entity |-> ent]],
             calls |-> <<[factory |-> factory, entity |-> ent]>>]
    IN  IF pre # errNil
        THEN {fail(pre)}
        ELSE IF kind = "Struct"
        THEN {built(ObjectType(obj), "Single")}
        ELSE IF kind = "Slice"
        THEN IF ent.nil
             THEN {fail(errPanic), built(NewList(obj), "Listing")}
             ELSE {built(NewList(obj), "Listing")}
        ELSE {fail(errorNotRelationshipType)}

----------------------------------------------------------------------------
(* Inputs *)

nTag == <<"T", "a", "g">>
ntag == <<"t", "a", "g">>
nTags == <<"T", "a", "g", "s">>
nBoss == <<"B", "o", "s", "s">>

\* typeof.Name() of the entity struct
EntityTypeName == <<"P", "o", "s", "t">>

FieldNames == {nTag, ntag, nTags, nBoss}

\* The types a field can have: any kind, and time.Time, which is a struct.
FieldTypes ==
    {[Kind |-> k, fulltype |-> "models.T"] : k \in Kinds}
        \cup {[Kind |-> "Struct", fulltype |-> "time.Time"]}

JsonTags == {NoTag, JsonTag(<<>>), JsonTag(nTag)}
FilterableTags == {NoFilterableTag, FilterableTag("true"), FilterableTag("1"),
                   FilterableTag("false"), FilterableTag("maybe")}

\* Every struct field of the model.
AllStructFields ==
    {StructField(n, t.Kind, t.fulltype, j, fl) :
        n \in FieldNames, t \in FieldTypes, j \in JsonTags, fl \in FilterableTags}

\* The fields of the structs of two and more fields that FieldType is run on.
FieldTypeStructFields ==
    {StructField(n, t.Kind, t.fulltype, j, fl) :
        n \in {nTag, ntag, nTags},
        t \in {tt \in FieldTypes : tt.Kind \in {"String", "Int", "Struct", "Ptr"}
                                     /\ tt.fulltype # "time.Time"},
        j \in JsonTags,
        fl \in {NoFilterableTag, FilterableTag("true")}}

\* The fields of the structs of two and more fields that RelationshipType is
\* run on (relationship reads no tag).
RelationshipStructFields ==
    {StructField(n, t.Kind, t.fulltype, NoTag, NoFilterableTag) :
        n \in FieldNames,
        t \in {tt \in FieldTypes : tt.Kind \in {"Struct", "Slice", "String", "Map"}}}

\* A struct's field names are pairwise distinct identifiers.
DistinctNames(e) ==
    \A a, b \in DOMAIN e : a # b => e[a].Name # e[b].Name

StructsOver(F) ==
    UNION {{e \in [1..n -> F] : DistinctNames(e)} : n \in 2..MaxFields}

SmallStructs == {<<>>} \cup {<<f>> : f \in AllStructFields}

\* The keys the two entity maps may hold, and what is registered under a key.
RegistryKeys == {ToLower(nTag), ToLower(nTags)}
EntityOf(k) == [nil |-> FALSE, name |-> k]
ObjectOf(k) == [nil |-> FALSE, name |-> k, fields |-> EmptyMap]
EntityMaps == {[k \in D |-> EntityOf(k)] : D \in SUBSET RegistryKeys}
ObjectMaps == {[k \in D |-> ObjectOf(k)] : D \in SUBSET RegistryKeys}

----------------------------------------------------------------------------
(* The state machine *)

Start(o, e, eMap, eObjs) ==
    /\ op = o
    /\ entity = e
    /\ entitiesMap = eMap
    /\ entitiesObjects = eObjs
    /\ i = 0
    /\ fields = EmptyMap
    /\ filters = EmptyMap
    /\ pc = "loop"
    /\ retObj = NilObject
    /\ retFilters = NilMap
    /\ retFields = NilMap
    /\ retErr = errNil
    /\ examined = <<>>
    /\ defs = <<>>
    /\ calls = <<>>

Init ==
    \/ \E o \in {"FieldType", "RelationshipType"}, e \in SmallStructs,
          eMap \in EntityMaps, eObjs \in ObjectMaps :
            Start(o, e, eMap, eObjs)
    \/ \E e \in StructsOver(FieldTypeStructFields) :
            Start("FieldType", e, EmptyMap, EmptyMap)
    \/ \E e \in StructsOver(RelationshipStructFields),
          eMap \in EntityMaps, eObjs \in ObjectMaps :
            Start("RelationshipType", e, eMap, eObjs)

numfields == Len(entity)

\* One iteration of FieldType's loop (lines 33-44).
FieldTypeStep ==
    /\ op = "FieldType"
    /\ pc = "loop"
    /\ i < numfields
    /\ LET def == field(entity[i + 1])
       IN  /\ examined' = Append(examined, i)
           /\ defs' = Append(defs, def)
           /\ IF def.err = errorNotSimpleFieldType
              THEN /\ i' = i + 1
                   /\ UNCHANGED <<fields, filters, pc, retObj, retFilters, retErr>>
              ELSE IF def.err # errNil
              THEN /\ pc' = "returned"
                   /\ retObj' = NilObject
                   /\ retFilters' = NilMap
                   /\ retErr' = def.err
                   /\ UNCHANGED <<i, fields, filters>>
              ELSE /\ i' = i + 1
                   /\ IF ~def.field.nil /\ def.field.Name # <<>>
                      THEN /\ fields' = MapPut(fields, def.field.Name, def.field)
                           /\ filters' = IF def.filter # filterNone
                                         THEN MapPut(filters, def.field.Name, def.filter)
                                         ELSE filters
                      ELSE UNCHANGED <<fields, filters>>
                   /\ UNCHANGED <<pc, retObj, retFilters, retErr>>
    /\ UNCHANGED <<op, entity, entitiesMap, entitiesObjects, retFields, calls>>

\* FieldType's return after the loop (lines 46-55).
FieldTypeReturn ==
    /\ op = "FieldType"
    /\ pc = "loop"
    /\ ~(i < numfields)
    /\ pc' = "returned"
    /\ retObj' = NewObject(ToLower(EntityTypeName), fields)
    /\ retFilters' = SomeMap(filters)
    /\ retErr' = errNil
    /\ UNCHANGED <<op, entity, entitiesMap, entitiesObjects, i, fields, filters,
                   retFields, examined, defs, calls>>

\* Variant of RelationshipTypeStep: an error of the classifier is skipped
\* like errorNotRelationshipType instead of ending the pass.
RelationshipTypeStep_continueOnError ==
    /\ op = "RelationshipType"
    /\ pc = "loop"
    /\ i < numfields
    /\ \E r \in relationship(entitiesMap, entitiesObjects, entity[i + 1]) :
        /\ examined' = Append(examined, i)
        /\ defs' = Append(defs, r)
        /\ calls' = calls \o r.calls
        /\ IF r.err = errPanic
           THEN /\ pc' = "panicked"
                /\ UNCHANGED <<i, fields, retFields, retErr>>
           ELSE IF r.err # errNil
           THEN /\ i' = i + 1
                /\ UNCHANGED <<fields, pc, retFields, retErr>>
           ELSE /\ i' = i + 1
                /\ fields' = MapPut(fields, r.field.Name, r.field)
                /\ UNCHANGED <<pc, retFields, retErr>>
    /\ UNCHANGED <<op, entity, entitiesMap, entitiesObjects, filters, retObj, retFilters>>

\* One iteration of RelationshipType's loop (lines 124-132).
RelationshipTypeStep ==
    /\ op = "RelationshipType"
    /\ pc = "loop"
    /\ i < numfields
    /\ \E r \in relationship(entitiesMap, entitiesObjects, entity[i + 1]) :
        /\ examined' = Append(examined, i)
        /\ defs' = Append(defs, r)
        /\ calls' = calls \o r.calls
        /\ IF r.err = errPanic
           THEN /\ pc' = "panicked"
                /\ UNCHANGED <<i, fields, retFields, retErr>>
           ELSE IF r.err = errorNotRelationshipType
           THEN /\ i' = i + 1
                /\ UNCHANGED <<fields, pc, retFields, retErr>>
           ELSE IF r.err # errNil
           THEN /\ pc' = "returned"
                /\ retFields' = SomeMap(fields)
                /\ retErr' = r.err
                /\ UNCHANGED <<i, fields>>
           ELSE /\ i' = i + 1
                /\ fields' = MapPut(fields, r.field.Name, r.field)
                /\ UNCHANGED <<pc, retFields, retErr>>
    /\ UNCHANGED <<op, entity, entitiesMap, entitiesObjects, filters, retObj, retFilters>>

\* RelationshipType's return after the loop (line 134).
RelationshipTypeReturn ==
    /\ op = "RelationshipType"
    /\ pc = "loop"
    /\ ~(i < numfields)
    /\ pc' = "returned"
    /\ retFields' = SomeMap(fields)
    /\ retErr' = errNil
    /\ UNCHANGED <<op, entity, entitiesMap, entitiesObjects, i, fields, filters,
                   retObj, retFilters, examined, defs, calls>>

Next ==
    \/ FieldTypeStep
    \/ FieldTypeReturn
    \/ RelationshipTypeStep
    \/ RelationshipTypeReturn

Spec == Init /\ [][Next]_vars

----------------------------------------------------------------------------
(* What the properties below are stated with: the entity's fields as the   *)
(* documentation describes them, independently of the classifiers.         *)

IntegerKinds == {"Int", "Int8", "Int16", "Int32", "Int64",
                 "Uint", "Uint8", "Uint16", "Uint32", "Uint64"}

\* The GraphQL scalar type a field's type stands for, "" when it is no scalar.
ScalarTypeName(f) ==
    IF f.Kind = "String" THEN "String"
    ELSE IF f.Kind = "Bool" THEN "Boolean"
    ELSE IF f.Kind \in IntegerKinds THEN "Int"
    ELSE IF f.Kind \in {"Float32", "Float64"} THEN "Float"
    ELSE IF f.fulltype = "time.Time" THEN "DateTime"
    ELSE ""

IsScalarField(f) == ScalarTypeName(f) # ""

\* The filter kind that goes with a GraphQL scalar type.
FilterOfType(t) ==
    IF t = "String" THEN filterString
    ELSE IF t = "Boolean" THEN filterBool
    ELSE IF t = "Int" THEN filterInt
    ELSE IF t = "Float" THEN filterFloat
    ELSE IF t = "DateTime" THEN filterDate
    ELSE filterNone

\* The `filterable` tag is present and parses as boolean true.
TagSaysFilterable(f) ==
    f.filterable.ok /\ f.filterable.v \in {"1", "t", "T", "TRUE", "true", "True"}

\* The lower-cased json tag value when the tag is present, the lower-cased
\* Go field name otherwise.
ResultName(f) ==
    IF f.json.ok THEN ToLower(f.json.v) ELSE ToLower(f.Name)

\* A struct (other than time.Time) or a slice.
IsRelationshipKind(f) ==
    (f.Kind = "Struct" /\ f.fulltype # "time.Time") \/ f.Kind = "Slice"

\* The lower-cased Go field name, singularized for a slice.
TargetName(f) ==
    IF f.Kind = "Slice" THEN Singular(ToLower(f.Name)) ELSE ToLower(f.Name)

TargetRegistered(f) ==
    TargetName(f) \in DOMAIN entitiesMap /\ TargetName(f) \in DOMAIN entitiesObjects

Positions == 1..Len(entity)

LastOf(S) == CHOOSE j \in S : \A j2 \in S : j2 <= j

FieldTypeSucceeded == op = "FieldType" /\ pc = "returned" /\ retErr = errNil

RelationshipTypeSucceeded == op = "RelationshipType" /\ pc = "returned" /\ retErr = errNil

----------------------------------------------------------------------------
(* C1 *)

\* C1: when FieldType succeeds, the classifier gave every string field the
\* type String, every bool field Boolean, every field of an integer kind
\* Int, every float field Float and every time.Time field DateTime, it gave
\* no field definition to a field of any other kind, and every field of the
\* returned object comes from a scalar field with its type.
C1_ScalarFieldMapping ==
    FieldTypeSucceeded =>
        /\ \A j \in Positions :
            LET f == entity[j]
                d == defs[j]
            IN  /\ IsScalarField(f) =>
                    d.err = errNil /\ ~d.field.nil /\ d.field.Type = ScalarTypeName(f)
                /\ ~IsScalarField(f) => d.field.nil
        /\ \A k \in DOMAIN retObj.fields :
            \E j \in Positions :
                /\ IsScalarField(entity[j])
                /\ ResultName(entity[j]) = k
                /\ retObj.fields[k].Type = ScalarTypeName(entity[j])

\* A successful pass over a struct with a time.Time field, stored as DateTime.
C1_Witness ==
    /\ FieldTypeSucceeded
    /\ \E j \in Positions :
        /\ entity[j].fulltype = "time.Time"
        /\ ResultName(entity[j]) \in DOMAIN retObj.fields
        /\ retObj.fields[ResultName(entity[j])].Type = "DateTime"

----------------------------------------------------------------------------
(* C2 *)

\* The scalar fields with a true `filterable` tag whose name is k.
FilterableAt(k) ==
    {j \in Positions : /\ IsScalarField(entity[j])
                       /\ TagSaysFilterable(entity[j])
                       /\ ResultName(entity[j]) = k}

\* C2 as stated: after a successful FieldType, a field's name is a key of
\* the filters map exactly when the field is a scalar field with a true
\* `filterable` tag, and the value is then the filter kind of that field.
C2_FilterTagExtraction_Original ==
    FieldTypeSucceeded =>
        \A j \in Positions :
            LET f == entity[j]
                k == ResultName(f)
            IN  /\ k \in DOMAIN retFilters.m <=> (IsScalarField(f) /\ TagSaysFilterable(f))
                /\ k \in DOMAIN retFilters.m =>
                    retFilters.m[k] = FilterOfType(ScalarTypeName(f))

\* C2 (amended): after a successful FieldType, a key is in the filters map
\* exactly when it is the non-empty name of some scalar field with a true
\* `filterable` tag, and its value is the filter kind of the last such field
\* in declaration order; a scalar field whose tag is missing, false or not a
\* boolean gets no filter and no error.
C2_FilterTagExtraction ==
    /\ FieldTypeSucceeded =>
        /\ DOMAIN retFilters.m =
              {k \in {ResultName(entity[j]) : j \in Positions} :
                  k # <<>> /\ FilterableAt(k) # {}}
        /\ \A k \in DOMAIN retFilters.m :
              retFilters.m[k] =
                  FilterOfType(ScalarTypeName(entity[LastOf(FilterableAt(k))]))
    /\ op = "FieldType" =>
        \A j \in DOMAIN defs :
            (IsScalarField(entity[j]) /\ ~TagSaysFilterable(entity[j])) =>
                defs[j].err = errNil /\ defs[j].filter = filterNone

\* A successful pass that returned a filter, over a struct that also has a
\* filterable scalar field with an empty name and one with a tag that does
\* not parse.
C2_Witness ==
    /\ FieldTypeSucceeded
    /\ DOMAIN retFilters.m # {}
    /\ \E j \in Positions :
        /\ IsScalarField(entity[j])
        /\ TagSaysFilterable(entity[j])
        /\ ResultName(entity[j]) = <<>>

----------------------------------------------------------------------------
(* C3 *)

\* C3 as stated: after a successful FieldType, every scalar field's name
\* (lower-cased json tag value, else lower-cased Go name) is a key of the
\* object's fields, and every key equals the Name of the field stored there.
C3_TagNameOverride_Original ==
    FieldTypeSucceeded =>
        /\ \A j \in Positions :
            IsScalarField(entity[j]) => ResultName(entity[j]) \in DOMAIN retObj.fields
        /\ \A k \in DOMAIN retObj.fields : retObj.fields[k].Name = k

\* C3 (amended): after a successful FieldType, the keys of the object's
\* fields are exactly the non-empty names of the scalar fields (a scalar
\* field whose json tag is present and empty gets no entry), and every key
\* equals the Name of the field stored there.
C3_TagNameOverride ==
    FieldTypeSucceeded =>
        /\ DOMAIN retObj.fields =
              {ResultName(entity[j]) : j \in {p \in Positions : IsScalarField(entity[p])}}
                  \ {<<>>}
        /\ \A k \in DOMAIN retObj.fields : retObj.fields[k].Name = k

\* A successful pass over a scalar field stored under its lower-cased json
\* tag, which differs from its Go name in any case.
C3_Witness ==
    /\ FieldTypeSucceeded
    /\ \E j \in Positions :
        /\ IsScalarField(entity[j])
        /\ entity[j].json.ok
        /\ entity[j].json.v # ResultName(entity[j])
        /\ ResultName(entity[j]) # ToLower(entity[j].Name)
        /\ ResultName(entity[j]) \in DOMAIN retObj.fields

----------------------------------------------------------------------------
(* C4 *)

\* The field the documentation describes for a struct or slice field whose
\* target is registered.
WiredField(f) ==
    [nil |-> FALSE,
     Name |-> TargetName(f),
     Type |-> [list |-> f.Kind = "Slice", of |-> entitiesObjects[TargetName(f)]],
     Resolve |-> [factory |-> IF f.Kind = "Slice" THEN "Listing" ELSE "Single",
                  entity |-> entitiesMap[TargetName(f)]]]

\* C4: in a RelationshipType pass, a struct field (not time.Time) whose
\* lower-cased name is registered in both maps yields the field of that
\* name, typed by the registered object and resolved by Single of the
\* registered entity; a slice field whose singularized lower-cased name is
\* registered yields the field of that name, typed by the list of the
\* registered object and resolved by Listing of the registered entity; the
\* factory call is made once; Single is only ever used for a struct field
\* and Listing for a slice field.
C4_RelationshipWiring ==
    op = "RelationshipType" =>
        \A j \in DOMAIN defs :
            LET f == entity[j]
                r == defs[j]
            IN  /\ (IsRelationshipKind(f) /\ TargetRegistered(f)) =>
                    /\ r.err = errNil
                    /\ r.field = WiredField(f)
                    /\ r.calls = <<WiredField(f).Resolve>>
                /\ r.err = errNil =>
                    /\ r.field.Resolve.factory = "Single" <=> f.Kind = "Struct"
                    /\ r.field.Resolve.factory = "Listing" <=> f.Kind = "Slice"

\* A pass that wired a struct field and a slice field whose singular name
\* differs from its lower-cased name.
C4_Witness ==
    /\ RelationshipTypeSucceeded
    /\ \E j \in DOMAIN defs :
        /\ entity[j].Kind = "Struct"
        /\ defs[j].err = errNil
        /\ TargetRegistered(entity[j])
    /\ \E j \in DOMAIN defs :
        /\ entity[j].Kind = "Slice"
        /\ defs[j].err = errNil
        /\ TargetRegistered(entity[j])
        /\ TargetName(entity[j]) # ToLower(entity[j].Name)

----------------------------------------------------------------------------
(* C5 *)

Accepts(r) == r.err = errNil /\ ~r.field.nil

\* C5: for every field a pass has examined, with the entity maps of the
\* state, the scalar classifier and the relationship classifier do not both
\* return a field; a time.Time field is accepted by the scalar classifier
\* and not by the relationship classifier, and a struct or slice field is
\* not accepted by the scalar classifier.
C5_ClassifiersExclusive ==
    \A j \in DOMAIN defs :
        LET f == entity[j]
            scalar == IF op = "FieldType" THEN {defs[j]} ELSE {field(f)}
            rel == IF op = "RelationshipType"
                   THEN {defs[j]}
                   ELSE relationship(entitiesMap, entitiesObjects, f)
        IN  /\ \A s \in scalar, r \in rel : ~(Accepts(s) /\ Accepts(r))
            /\ f.fulltype = "time.Time" =>
                   (\A s \in scalar : Accepts(s)) /\ (\A r \in rel : ~Accepts(r))
            /\ IsRelationshipKind(f) => \A s \in scalar : ~Accepts(s)

\* A time.Time field has been examined whose lower-cased name is registered
\* in both maps, so that only its type keeps it from being a relationship.
C5_Witness ==
    \E j \in DOMAIN defs :
        /\ entity[j].fulltype = "time.Time"
        /\ TargetRegistered(entity[j])
        /\ op = "RelationshipType"

----------------------------------------------------------------------------
(* C6 *)

RelationshipPositions == {j \in Positions : IsRelationshipKind(entity[j])}

\* C6 as stated: when RelationshipType returns without error, the returned
\* map holds one entry for each struct (not time.Time) or slice field and no
\* entry for any other field.
C6_StructSliceBecomeRelationships_Original ==
    RelationshipTypeSucceeded =>
        /\ Cardinality(DOMAIN retFields.m) = Cardinality(RelationshipPositions)
        /\ DOMAIN retFields.m = {TargetName(entity[j]) : j \in RelationshipPositions}

\* C6 (amended): when RelationshipType returns without error, the returned
\* map holds one entry for each distinct lookup name of the struct (not
\* time.Time) and slice fields, two such fields of the same lookup name
\* sharing one entry, and no other entry; every other field was skipped with
\* errorNotRelationshipType.
C6_StructSliceBecomeRelationships ==
    RelationshipTypeSucceeded =>
        /\ DOMAIN retFields.m = {TargetName(entity[j]) : j \in RelationshipPositions}
        /\ \A k \in DOMAIN retFields.m : retFields.m[k].Name = k
        /\ \A j \in Positions \ RelationshipPositions :
              defs[j].err = errorNotRelationshipType /\ defs[j].field.nil

\* A pass that returned without error over a struct field and a slice field
\* of the same lookup name.
C6_Witness ==
    /\ RelationshipTypeSucceeded
    /\ \E a, b \in RelationshipPositions :
        a # b /\ TargetName(entity[a]) = TargetName(entity[b])

----------------------------------------------------------------------------
(* C7 *)

\* C7 as stated: FieldType always returns a non-nil object and a non-nil
\* filters map with a nil error (a field that is no scalar is skipped).
C7_FieldTypeSkipsNonSimple ==
    (op = "FieldType" /\ pc = "returned") =>
        /\ retErr = errNil
        /\ ~retObj.nil
        /\ ~retFilters.nil

----------------------------------------------------------------------------
(* C8 *)

\* C8 as stated: a finished RelationshipType call on an entity with a struct
\* (not time.Time) or slice field whose target is missing from either map
\* has returned errorUnknownFieldType, and no field is ever built whose
\* target is missing.
C8_UnknownRelationshipTarget ==
    op = "RelationshipType" =>
        /\ (pc # "loop" /\ \E j \in RelationshipPositions : ~TargetRegistered(entity[j])) =>
              pc = "returned" /\ retErr = errorUnknownFieldType
        /\ \A j \in DOMAIN defs :
              defs[j].err = errNil => TargetRegistered(entity[j])

----------------------------------------------------------------------------
(* C9 *)

\* C9 as stated: after a successful FieldType, every key of the filters map
\* is a key of the object's fields, and the filter kind under a key goes
\* with the GraphQL type of the field under that key.
C9_FiltersAgreeWithFields ==
    FieldTypeSucceeded =>
        /\ DOMAIN retFilters.m \subseteq DOMAIN retObj.fields
        /\ \A k \in DOMAIN retFilters.m :
              retFilters.m[k] = FilterOfType(retObj.fields[k].Type)

----------------------------------------------------------------------------
(* C10 *)

\* The classifier results so far that built a field.
BuiltDefs == SelectSeq(defs, LAMBDA d : d.err = errNil)

\* C10: in a RelationshipType pass the fields are examined in declaration
\* order, each at most once; the resolver factory calls are, in order, one
\* for each field that was built and none for any other; a field that yields
\* an error (or a panic) is the last one examined and ends the pass; and an
\* error is returned together with the entries built before it.
C10_ResolverFactoryCalls ==
    op = "RelationshipType" =>
        /\ examined = [k \in 1..Len(examined) |-> k - 1]
        /\ Len(defs) = Len(examined)
        /\ Len(examined) <= Len(entity)
        /\ calls = [k \in 1..Len(BuiltDefs) |-> BuiltDefs[k].field.Resolve]
        /\ \A j \in DOMAIN defs :
              defs[j].err \notin {errNil, errorNotRelationshipType} =>
                  /\ j = Len(defs)
                  /\ pc # "loop"
                  /\ pc = "returned" => retErr = defs[j].err
        /\ pc = "returned" =>
              /\ ~retFields.nil
              /\ DOMAIN retFields.m = {BuiltDefs[k].field.Name : k \in 1..Len(BuiltDefs)}
              /\ retErr = errNil => Len(examined) = Len(entity)

\* A pass that built a field with one factory call, then met a field with
\* an unknown target and returned the error with the entry built.
C10_Witness ==
    /\ op = "RelationshipType"
    /\ pc = "returned"
    /\ retErr = errorUnknownFieldType
    /\ Len(calls) = 1
    /\ DOMAIN retFields.m # {}
    /\ Len(examined) = 2

====
